---- MODULE Spec2Model ----
(***************************************************************************)
(* ShotGridReview: frame-sequence discovery, sequence validation and the   *)
(* slate / render / upload pipeline of shotgrid_review.py.                 *)
(*                                                                         *)
(* Strings are sequences of one-character strings, so that the regular     *)
(* expression, the "%" formatting and str.replace are computed and not     *)
(* assumed.  None is Python's None.                                        *)
(***************************************************************************)
EXTENDS Integers, Sequences, FiniteSets, TLC

None == [type |-> "NoneType"]

\* ---------------------------------------------------------------- bounds
\* longest directory listing os.listdir returns in the scanner runs
MaxFiles == 3
\* largest magnitude of the small frame numbers of the slate label runs
MaxFrame == 3
\* number of process invocations the farm runs against one tracking database
NumProcs == 2

Procs == 1..NumProcs

\* ------------------------------------------------------- string helpers
DigitChars == <<"0", "1", "2", "3", "4", "5", "6", "7", "8", "9">>

IsDigit(c) == \E i \in 1..10 : DigitChars[i] = c

DigitVal(c) == (CHOOSE i \in 1..10 : DigitChars[i] = c) - 1

RECURSIVE NatToStr(_)
\* str(n) for n >= 0
NatToStr(n) ==
    IF n < 10 THEN <<DigitChars[n + 1]>>
    ELSE NatToStr(n \div 10) \o <<DigitChars[(n % 10) + 1]>>

\* "%s" % n and str(n) for a Python int
IntToStr(n) == IF n < 0 THEN <<"-">> \o NatToStr(0 - n) ELSE NatToStr(n)

RECURSIVE StrToNat(_)
\* int(s) for a string of decimal digits
StrToNat(s) ==
    IF s = <<>> THEN 0
    ELSE 10 * StrToNat(SubSeq(s, 1, Len(s) - 1)) + DigitVal(s[Len(s)])

RECURSIVE Zeros(_)
Zeros(n) == IF n <= 0 THEN <<>> ELSE <<"0">> \o Zeros(n - 1)

\* "%0<w>d" % n for n >= 0
ZeroPad(n, w) == Zeros(w - Len(NatToStr(n))) \o NatToStr(n)

\* needle occurs in s at position i
OccursAt(s, needle, i) ==
    /\ i + Len(needle) - 1 <= Len(s)
    /\ SubSeq(s, i, i + Len(needle) - 1) = needle

\* needle in s
Contains(s, needle) == \E i \in 1..Len(s) : OccursAt(s, needle, i)

RECURSIVE Replace(_, _, _)
\* s.replace(old, new): every non-overlapping occurrence, left to right.
\* The rest of the string is bound through a singleton set, which computes it
\* once before the recursion uses it.
Replace(s, old, new) ==
    IF s = <<>> THEN <<>>
    ELSE IF OccursAt(s, old, 1)
         THEN CHOOSE r \in { new \o Replace(rest, old, new)
                             : rest \in {SubSeq(s, Len(old) + 1, Len(s))} } : TRUE
         ELSE CHOOSE r \in { <<s[1]>> \o Replace(rest, old, new)
                             : rest \in {SubSeq(s, 2, Len(s))} } : TRUE

\* position of the last occurrence of character c in s, 0 when absent
LastIndexOf(s, c) ==
    IF \E i \in 1..Len(s) : s[i] = c
    THEN CHOOSE i \in 1..Len(s) : s[i] = c /\ \A j \in (i + 1)..Len(s) : s[j] # c
    ELSE 0

\* os.path.dirname / os.path.basename / os.path.join with "/" separators
dirname(path) ==
    LET k == LastIndexOf(path, "/") IN IF k <= 1 THEN SubSeq(path, 1, k) ELSE SubSeq(path, 1, k - 1)

basename(path) == SubSeq(path, LastIndexOf(path, "/") + 1, Len(path))

join(folder, name) == folder \o <<"/">> \o name

\* ------------------------------------------------------ the frame regex
FrameSeps == {".", "_", "-"}

\* FRAME_REGEX = (.*)([._-])(\d+)\.([^.]+)$ : the extension follows the last
\* dot, the digits are the run that ends at that dot, and the character
\* before the run has to be a separator.  re.search finds nothing else: a
\* match that starts later extends to one that starts at the first character.
DigitsStart(s, dot) ==
    CHOOSE j \in 1..dot :
        /\ \A k \in j..(dot - 1) : IsDigit(s[k])
        /\ (j = 1 \/ ~IsDigit(s[j - 1]))

FRAME_REGEX(s) ==
    LET Groups(dot, j) ==
            IF /\ dot > 0
               /\ dot < Len(s)
               /\ j < dot
               /\ j >= 2
               /\ s[j - 1] \in FrameSeps
            THEN [matched   |-> TRUE,
                  prefix    |-> SubSeq(s, 1, j - 2),
                  frame_sep |-> s[j - 1],
                  frame_str |-> SubSeq(s, j, dot - 1),
                  extension |-> SubSeq(s, dot + 1, Len(s))]
            ELSE [matched |-> FALSE]
    IN  CHOOSE r \in
          { Groups(dot, IF dot = 0 THEN 0 ELSE DigitsStart(s, dot))
            : dot \in {LastIndexOf(s, ".")} } : TRUE

\* ------------------------------------------------- SequenceScanner
\* processed_names is a dict in insertion order: a sequence of entries
\* [key, sequence_path, frame_list].
HasKey(processed_names, key) ==
    \E i \in 1..Len(processed_names) : processed_names[i].key = key

AppendFrame(processed_names, key, frame_str) ==
    [i \in 1..Len(processed_names) |->
        IF processed_names[i].key = key
        THEN [processed_names[i] EXCEPT !.frame_list = Append(@, frame_str)]
        ELSE processed_names[i]]

\* FrameSpecOf, were the padding the usual four digits whatever the file has
FrameSpecOf_FourDigits(padding) == <<"%", "0", "4", "d">>

\* "%%0%dd" % (padding,)
FrameSpecOf(padding) == <<"%", "0">> \o IntToStr(padding) \o <<"d">>

\* FileNoFrame, were the prefix left out of the key
FileNoFrame_ExtensionOnly(prefix, extension) == <<".">> \o extension

\* filename without a frame number: "%s.%s" % (prefix, extension)
FileNoFrame(prefix, extension) == prefix \o <<".">> \o extension

\* the body of the loop for a file the regex matched as m
ScanMatch(st, folder, m, extensions) ==
    LET file_no_frame == FileNoFrame(m.prefix, m.extension) IN
    IF HasKey(st.processed_names, file_no_frame)
    THEN [st EXCEPT !.processed_names = AppendFrame(@, file_no_frame, m.frame_str)]
    ELSE IF extensions # {} /\ m.extension \notin extensions THEN st
    ELSE
      LET frame_spec   == IF st.frame_spec = <<>>
                          THEN FrameSpecOf(Len(m.frame_str))
                          ELSE st.frame_spec
          seq_filename == m.prefix \o <<m.frame_sep>> \o frame_spec
          with_ext     == IF m.extension # <<>>
                          THEN seq_filename \o <<".">> \o m.extension
                          ELSE seq_filename
      IN  [processed_names |->
               Append(st.processed_names,
                      [key           |-> file_no_frame,
                       sequence_path |-> join(folder, with_ext),
                       frame_list    |-> <<m.frame_str>>]),
           frame_spec |-> frame_spec]

\* one iteration of the loop over os.listdir(folder); st carries the locals
\* processed_names and frame_spec that survive from one file to the next
ScanFile(st, folder, filename, is_dir, extensions) ==
    IF is_dir THEN st
    ELSE CHOOSE r \in { IF m.matched THEN ScanMatch(st, folder, m, extensions) ELSE st
                        : m \in {FRAME_REGEX(filename)} } : TRUE

RECURSIVE ScanLoop(_, _, _, _, _)
\* the loop: the locals after one file are computed once and handed on
ScanLoop(st, folder, entries, dirs, extensions) ==
    IF entries = <<>> THEN st
    ELSE CHOOSE r \in
           { ScanLoop(next, folder, rest, dirs, extensions)
             : next \in {ScanFile(st, folder, Head(entries), Head(entries) \in dirs, extensions)},
               rest \in {Tail(entries)} } : TRUE

\* __get_frame_sequences(folder, extensions=None, frame_spec=None): entries is
\* what os.listdir(folder) returns, dirs the entries that are subfolders.
\* An empty extensions / frame_spec stands for the falsy default.
get_frame_sequences(folder, entries, dirs, extensions, frame_spec) ==
    LET Sequences(processed_names) ==
            [i \in 1..Len(processed_names) |->
                <<processed_names[i].sequence_path, processed_names[i].frame_list>>]
    IN  CHOOSE r \in
          { Sequences(st.processed_names)
            : st \in {ScanLoop([processed_names |-> <<>>, frame_spec |-> frame_spec],
                               folder, entries, dirs, extensions)} } : TRUE

\* ------------------------------------------------- SequenceValidator
MagicFrame == <<"1", "0", "0", "1">>
MagicSpec  == <<"%", "0", "4", "d">>

\* the name the validator compares with the requested basename
FixedFilename(sequence) ==
    LET filename == basename(sequence[1]) IN
    IF Contains(filename, MagicFrame) THEN Replace(filename, MagicFrame, MagicSpec)
    ELSE filename

\* __validate_sequence: the first scanned group whose fixed name equals the
\* requested basename, found = FALSE for the raised exception; sequences is
\* what the scanner returned to it
validate_sequence(sequence_path, entries, dirs) ==
    LET sequence_directory == dirname(sequence_path)
        sequence_filename  == basename(sequence_path)
        Result(sequences) ==
            LET hits == {i \in 1..Len(sequences) :
                            sequence_filename = FixedFilename(sequences[i])}
            IN  IF hits = {} THEN [found |-> FALSE, sequences |-> sequences]
                ELSE [found     |-> TRUE,
                      sequences |-> sequences,
                      sequence  |-> sequences[CHOOSE i \in hits : \A j \in hits : i <= j]]
    IN  CHOOSE r \in { Result(sequences) : sequences \in
                          {get_frame_sequences(sequence_directory, entries, dirs, {}, <<>>)} }
              : TRUE

\* ---------------------------------------------- strings as Python orders them
\* a < b for strings: the first differing character decides, a proper prefix
\* is smaller.  Frame tokens hold digits only.
StrLess(a, b) ==
    \E i \in 1..(Len(b)) :
        /\ \A k \in 1..(i - 1) : k <= Len(a) /\ a[k] = b[k]
        /\ i - 1 <= Len(a)
        /\ (i > Len(a) \/ DigitVal(a[i]) < DigitVal(b[i]))

\* min(frame_list) / max(frame_list) on a list of strings
StrMin(frame_list) ==
    LET i == CHOOSE i \in 1..Len(frame_list) :
                 \A j \in 1..Len(frame_list) : ~StrLess(frame_list[j], frame_list[i])
    IN  frame_list[i]

StrMax(frame_list) ==
    LET i == CHOOSE i \in 1..Len(frame_list) :
                 \A j \in 1..Len(frame_list) : ~StrLess(frame_list[i], frame_list[j])
    IN  frame_list[i]

\* ------------------------------------------------------------ the inputs
Folder == <<"/", "s">>

F(prefix, sep, digits, ext) == prefix \o <<sep>> \o digits \o <<".">> \o ext

\* names a sequence folder can hold
ScanFiles ==
    { F(<<"a">>, ".", <<"1">>, <<"e">>),
      F(<<"a">>, ".", <<"2">>, <<"e">>),
      F(<<"a">>, ".", <<"1", "0">>, <<"e">>),
      F(<<"a">>, "_", <<"3">>, <<"e">>),
      F(<<"a">>, ".", <<"0", "1">>, <<"e">>),
      F(<<"b">>, ".", <<"0", "1">>, <<"e">>),
      F(<<"b">>, ".", <<"0", "2">>, <<"e">>),
      F(<<"a">>, ".", <<"1", "0", "0", "1">>, <<"e">>),
      F(<<"a">>, ".", <<"1", "0", "0", "2">>, <<"e">>),
      F(<<"a", "1", "0", "0", "1">>, ".", <<"5">>, <<"e">>),
      <<"r", "e", "a", "d", "m", "e">>,
      F(<<"c">>, ".", <<"7">>, <<"e">>) }

\* the entry of ScanFiles that is a subfolder
SubDirs == { F(<<"c">>, ".", <<"7">>, <<"e">>) }

\* listings of distinct names, in every order, up to MaxFiles entries
Listings ==
    UNION { { l \in [1..n -> ScanFiles] : \A i, j \in 1..n : i # j => l[i] # l[j] }
            : n \in 0..MaxFiles }

\* requested basenames that are no group's template
OtherRequests ==
    { <<"z">> \o <<".">> \o MagicSpec \o <<".", "e">>,
      <<"a">> \o <<".">> \o MagicSpec \o <<".", "e">> }

TemplatesOf(entries) ==
    LET sequences == get_frame_sequences(Folder, entries, SubDirs, {}, <<>>)
    IN  { basename(sequences[i][1]) : i \in 1..Len(sequences) }

\* the listings and requests of the pipeline runs
PipelineListings ==
    { << F(<<"a">>, ".", <<"1", "0", "0", "1">>, <<"e">>),
         F(<<"a">>, ".", <<"1", "0", "0", "2">>, <<"e">>) >>,
      << F(<<"a">>, ".", <<"2">>, <<"e">>),
         F(<<"b">>, ".", <<"0", "1">>, <<"e">>),
         F(<<"a">>, ".", <<"1", "0">>, <<"e">>) >>,
      << <<"r", "e", "a", "d", "m", "e">> >> }

PipelineRequests ==
    { <<"a">> \o <<".">> \o MagicSpec \o <<".", "e">>,
      <<"a", ".", "%", "0", "1", "d", ".", "e">> }

\* first_frame, last_frame as the command line gives them
FramePairs == { <<1001, 1010>>, <<-2, 9>> }

\* frames of the runs that look at the slate label: around zero, where the
\* digit count changes, and the 1001 - 1010 of a usual shot
SlateFrames == ((0 - MaxFrame)..MaxFrame) \cup {99, 100, 1001, 1010}

\* the PublishedFile table of the tracking database; a lookup of an id that
\* is not there returns None
CompletePublish ==
    [type           |-> "PublishedFile",
     id             |-> 42,
     created_by     |-> [type |-> "HumanUser", id |-> 1, name |-> "artist"],
     code           |-> "shot_v014.%04d.exr",
     task           |-> [type |-> "Task", id |-> 7, name |-> "comp"],
     project        |-> [type |-> "Project", id |-> 2, name |-> "proj"],
     entity         |-> [type |-> "Shot", id |-> 3, name |-> "sh010"],
     description    |-> "desc",
     version_number |-> [type |-> "int", value |-> 14]]

PublishedFiles ==
    { CompletePublish,
      [CompletePublish EXCEPT !.id = 43, !.project = None],
      [CompletePublish EXCEPT !.id = 44, !.created_by = None],
      [CompletePublish EXCEPT !.id = 45, !.task = None],
      [CompletePublish EXCEPT !.id = 46, !.version_number = None] }

PublishIds == { r.id : r \in PublishedFiles } \cup { 47 }

\* -------------------------------------------------------------- the state
VARIABLES
    entries,          \* os.listdir of the sequence folder
    slate_dir,        \* the folder of slate_path exists
    movie,            \* the renderer has written slate_path
    job,              \* the command line arguments of the invocations
    sg_versions,      \* Version records of the tracking database, by creation
    sg_uploads,       \* ids of the Versions that hold an uploaded movie
    sg_task_status,   \* sg_status_list of the publish's Task
    pc,               \* position of each invocation in __init__
    calls,            \* calls each invocation has issued on nuke / os / sg
    sequences,        \* what __get_frame_sequences returned
    sequence,         \* what __validate_sequence returned
    root,             \* knobs of nuke.root()
    read,             \* knobs of the Read node
    publish_data,     \* what sg.find_one returned
    slate,            \* knobs of the nfaSlate node
    write,            \* knobs of the Write node
    version           \* id of the Version sg.create returned

vars == <<entries, slate_dir, movie, job, sg_versions, sg_uploads, sg_task_status,
          pc, calls, sequences, sequence, root, read, publish_data, slate, write,
          version>>

fs_vars   == <<entries, slate_dir, movie>>
sg_vars   == <<sg_versions, sg_uploads, sg_task_status>>
nuke_vars == <<root, read, slate, write>>

Call(op, ok, args) == [op |-> op, ok |-> ok, args |-> args]

Log(p, cs) == calls' = [calls EXCEPT ![p] = @ \o cs]

Goto(p, label) == pc' = [pc EXCEPT ![p] = label]

JobOf(first_frame, last_frame, publish_id, name) ==
    [first_frame    |-> first_frame,
     last_frame     |-> last_frame,
     fps            |-> 25,
     publish_id     |-> publish_id,
     sequence_path  |-> join(Folder, name),
     slate_path     |-> "/out/slate.mov",
     company        |-> "NFA",
     colorspace_idt |-> "ACES - ACEScg",
     colorspace_odt |-> "Output - sRGB"]

Jobs ==
    { JobOf(fl[1], fl[2], id, name)
      : fl \in FramePairs, id \in PublishIds, name \in PipelineRequests }

InitLocals(label) ==
    /\ pc = [p \in Procs |-> label]
    /\ calls = [p \in Procs |-> <<>>]
    /\ sequences = [p \in Procs |-> <<>>]
    /\ sequence = [p \in Procs |-> None]
    /\ root = [p \in Procs |-> None]
    /\ read = [p \in Procs |-> None]
    /\ publish_data = [p \in Procs |-> None]
    /\ slate = [p \in Procs |-> None]
    /\ write = [p \in Procs |-> None]
    /\ version = [p \in Procs |-> None]

InitTracking ==
    /\ sg_versions = <<>>
    /\ sg_uploads = {}
    /\ sg_task_status = "ip"

\* every invocation is about to run ShotGridReview(...) on the same job
Init ==
    /\ entries \in PipelineListings
    /\ slate_dir \in BOOLEAN
    /\ movie = FALSE
    /\ job \in Jobs
    /\ InitTracking
    /\ InitLocals("connect")

\* ------------------------------------------------------------ __init__
\* nuke.pluginAddPath and the shotgun_api3.Shotgun connection
Connect(p) ==
    /\ pc[p] = "connect"
    /\ \E ok \in BOOLEAN :
        /\ Log(p, <<Call("Shotgun", ok, <<>>)>>)
        /\ Goto(p, IF ok THEN "validate" ELSE "failed")
    /\ UNCHANGED <<fs_vars, job, sg_vars, nuke_vars, sequences, sequence,
                   publish_data, version>>

\* Validate, were the validator to return False for a request it does not
\* find: __init__ skips its body and returns
Validate_ReturnsFalse(p) ==
    /\ pc[p] = "validate"
    /\ \E v \in {validate_sequence(job.sequence_path, entries, SubDirs)} :
        /\ sequences' = [sequences EXCEPT ![p] = v.sequences]
        /\ sequence' = [sequence EXCEPT ![p] = IF v.found THEN v.sequence ELSE None]
        /\ Goto(p, IF v.found THEN "setup_script" ELSE "done")
    /\ UNCHANGED <<fs_vars, job, sg_vars, nuke_vars, calls, publish_data, version>>

\* sequence = self.__validate_sequence(sequence_path)
Validate(p) ==
    /\ pc[p] = "validate"
    /\ \E v \in {validate_sequence(job.sequence_path, entries, SubDirs)} :
        /\ sequences' = [sequences EXCEPT ![p] = v.sequences]
        /\ sequence' = [sequence EXCEPT ![p] = IF v.found THEN v.sequence ELSE None]
        /\ Goto(p, IF v.found THEN "setup_script" ELSE "failed")
    /\ UNCHANGED <<fs_vars, job, sg_vars, nuke_vars, calls, publish_data, version>>

\* read = self.__setup_script(...): the root knobs, then the Read node with
\* the frame range the scanner found.  r names the nuke call that raises.
SetupScript(p) ==
    /\ pc[p] = "setup_script"
    /\ \E r \in {"ok", "root", "Read"} :
        LET first_sequence_frame == StrToNat(StrMin(sequence[p][2]))
            last_sequence_frame  == StrToNat(StrMax(sequence[p][2]))
        IN
        /\ root' = [root EXCEPT ![p] =
               IF r = "root" THEN @
               ELSE [first_frame     |-> job.first_frame,
                     last_frame      |-> job.last_frame,
                     fps             |-> job.fps,
                     colorManagement |-> "OCIO"]]
        /\ read' = [read EXCEPT ![p] =
               IF r # "ok" THEN @
               ELSE [file       |-> job.sequence_path,
                     first      |-> first_sequence_frame,
                     origfirst  |-> first_sequence_frame,
                     last       |-> last_sequence_frame,
                     origlast   |-> last_sequence_frame,
                     colorspace |-> job.colorspace_idt,
                     on_error   |-> "checkerboard"]]
        /\ Log(p, IF r = "root" THEN <<Call("root", FALSE, <<>>)>>
                  ELSE <<Call("root", TRUE, <<>>), Call("Read", r = "ok", <<>>)>>)
        /\ Goto(p, IF r = "ok" THEN "get_publish_data" ELSE "failed")
    /\ UNCHANGED <<fs_vars, job, sg_vars, slate, write, sequences, sequence,
                   publish_data, version>>

\* sg.find_one("PublishedFile", [["id", "is", publish_id]], columns)
find_one(publish_id) ==
    IF \E r \in PublishedFiles : r.id = publish_id
    THEN CHOOSE r \in PublishedFiles : r.id = publish_id
    ELSE None

\* publish_data = self.__get_publish_data(publish_id)
GetPublishData(p) ==
    /\ pc[p] = "get_publish_data"
    /\ \E ok \in BOOLEAN :
        /\ publish_data' = [publish_data EXCEPT ![p] =
               IF ok THEN find_one(job.publish_id) ELSE @]
        /\ Log(p, <<Call("find_one", ok, <<job.publish_id>>)>>)
        /\ Goto(p, IF ok THEN "setup_slate" ELSE "failed")
    /\ UNCHANGED <<fs_vars, job, sg_vars, nuke_vars, sequences, sequence, version>>

\* FrameList, were the duration the number of frames, both ends counted
FrameList_Inclusive(first_frame, last_frame) ==
    IntToStr(first_frame) \o <<" ", "-", " ">> \o IntToStr(last_frame)
        \o <<" ", "(">> \o IntToStr(last_frame - first_frame + 1) \o <<")">>

\* "%s - %s (%s)" % (first_frame, last_frame, str(int(last_frame) - int(first_frame)))
FrameList(first_frame, last_frame) ==
    IntToStr(first_frame) \o <<" ", "-", " ">> \o IntToStr(last_frame)
        \o <<" ", "(">> \o IntToStr(last_frame - first_frame) \o <<")">>

\* the .get chains of __setup_slate raise on a lookup that found nothing and
\* on a record without project, created_by, task or version_number
SlateFieldsPresent(data) ==
    /\ data # None
    /\ data.project # None
    /\ data.created_by # None
    /\ data.task # None
    /\ data.version_number # None

\* slate = self.__setup_slate(...)
SetupSlate(p) ==
    /\ pc[p] = "setup_slate"
    /\ \E ok \in BOOLEAN :
        LET data == publish_data[p]
            good == ok /\ SlateFieldsPresent(data)
        IN
        /\ slate' = [slate EXCEPT ![p] =
               IF ~good THEN @
               ELSE [project       |-> data.project.name,
                     company       |-> job.company,
                     file          |-> data.code,
                     frameList     |-> FrameList(job.first_frame, job.last_frame),
                     artist        |-> data.created_by.name,
                     task          |-> data.task.name,
                     version       |-> <<"v">> \o ZeroPad(data.version_number.value, 3),
                     fps           |-> job.fps,
                     colorspaceIDT |-> job.colorspace_idt,
                     colorspaceODT |-> job.colorspace_odt,
                     description   |-> data.description,
                     input         |-> "Read"]]
        /\ Log(p, <<Call("nfaSlate", ok, <<>>)>>)
        /\ Goto(p, IF good THEN "setup_write" ELSE "failed")
    /\ UNCHANGED <<fs_vars, job, sg_vars, root, read, write, sequences, sequence,
                   publish_data, version>>

\* SetupWrite, were the folder made before the Write node is created: a
\* Write node that raises leaves the new folder behind
SetupWrite_DirFirst(p) ==
    /\ pc[p] = "setup_write"
    /\ \E r \in {"ok", "Write", "makedirs"} :
        /\ (r = "makedirs") => ~slate_dir
        /\ write' = [write EXCEPT ![p] =
               IF r # "ok" THEN @
               ELSE [file       |-> job.slate_path,
                     colorspace |-> job.colorspace_odt,
                     input      |-> "nfaSlate"]]
        /\ slate_dir' = (slate_dir \/ r # "makedirs")
        /\ Log(p, (IF slate_dir THEN <<>> ELSE <<Call("makedirs", r # "makedirs", <<>>)>>)
                  \o (IF r = "makedirs" THEN <<>> ELSE <<Call("Write", r = "ok", <<>>)>>))
        /\ Goto(p, IF r = "ok" THEN "render_slate" ELSE "failed")
    /\ UNCHANGED <<entries, movie, job, sg_vars, root, read, slate, sequences,
                   sequence, publish_data, version>>

\* SetupWrite, were an os.makedirs that raises caught and the run continued
SetupWrite_IgnoresMakedirs(p) ==
    /\ pc[p] = "setup_write"
    /\ \E r \in {"ok", "Write", "makedirs"} :
        /\ (r = "makedirs") => ~slate_dir
        /\ write' = [write EXCEPT ![p] =
               IF r = "Write" THEN @
               ELSE [file       |-> job.slate_path,
                     colorspace |-> job.colorspace_odt,
                     input      |-> "nfaSlate"]]
        /\ slate_dir' = (slate_dir \/ r = "ok")
        /\ Log(p, IF r = "Write" THEN <<Call("Write", FALSE, <<>>)>>
                  ELSE IF slate_dir THEN <<Call("Write", TRUE, <<>>)>>
                  ELSE <<Call("Write", TRUE, <<>>), Call("makedirs", r = "ok", <<>>)>>)
        /\ Goto(p, IF r = "Write" THEN "failed" ELSE "render_slate")
    /\ UNCHANGED <<entries, movie, job, sg_vars, root, read, slate, sequences,
                   sequence, publish_data, version>>

\* write = self.__setup_write(...): the Write node, then os.makedirs when the
\* folder of slate_path is missing.  r names the call that raises.
SetupWrite(p) ==
    /\ pc[p] = "setup_write"
    /\ \E r \in {"ok", "Write", "makedirs"} :
        /\ (r = "makedirs") => ~slate_dir
        /\ write' = [write EXCEPT ![p] =
               IF r = "Write" THEN @
               ELSE [file       |-> job.slate_path,
                     colorspace |-> job.colorspace_odt,
                     input      |-> "nfaSlate"]]
        /\ slate_dir' = (slate_dir \/ r = "ok")
        /\ Log(p, IF r = "Write" THEN <<Call("Write", FALSE, <<>>)>>
                  ELSE IF slate_dir THEN <<Call("Write", TRUE, <<>>)>>
                  ELSE <<Call("Write", TRUE, <<>>), Call("makedirs", r = "ok", <<>>)>>)
        /\ Goto(p, IF r = "ok" THEN "render_slate" ELSE "failed")
    /\ UNCHANGED <<entries, movie, job, sg_vars, root, read, slate, sequences,
                   sequence, publish_data, version>>

\* RenderSlate, were a render that raises tried a second time
RenderSlate_Retries(p) ==
    /\ pc[p] = "render_slate"
    /\ \E ok \in BOOLEAN, again \in BOOLEAN :
        /\ movie' = (movie \/ ok \/ again)
        /\ Log(p, IF ok THEN <<Call("execute", TRUE, <<job.first_frame - 1, job.last_frame>>)>>
                  ELSE <<Call("execute", FALSE, <<job.first_frame - 1, job.last_frame>>),
                         Call("execute", again, <<job.first_frame - 1, job.last_frame>>)>>)
        /\ Goto(p, "create")
    /\ UNCHANGED <<entries, slate_dir, job, sg_vars, nuke_vars, sequences, sequence,
                   publish_data, version>>

\* RenderSlate, were the range the requested one with no frame for the slate
RenderSlate_NoSlateFrame(p) ==
    /\ pc[p] = "render_slate"
    /\ \E ok \in BOOLEAN :
        /\ movie' = (movie \/ ok)
        /\ Log(p, <<Call("execute", ok, <<job.first_frame, job.last_frame>>)>>)
        /\ Goto(p, "create")
    /\ UNCHANGED <<entries, slate_dir, job, sg_vars, nuke_vars, sequences, sequence,
                   publish_data, version>>

\* RenderSlate without the try / except: a render that raises ends the run
RenderSlate_Aborts(p) ==
    /\ pc[p] = "render_slate"
    /\ \E ok \in BOOLEAN :
        /\ movie' = (movie \/ ok)
        /\ Log(p, <<Call("execute", ok, <<job.first_frame - 1, job.last_frame>>)>>)
        /\ Goto(p, IF ok THEN "create" ELSE "failed")
    /\ UNCHANGED <<entries, slate_dir, job, sg_vars, nuke_vars, sequences, sequence,
                   publish_data, version>>

\* self.__render_slate(...): nuke.execute(write_node, first_frame - 1, last_frame)
\* inside try / except Exception
RenderSlate(p) ==
    /\ pc[p] = "render_slate"
    /\ \E ok \in BOOLEAN :
        /\ movie' = (movie \/ ok)
        /\ Log(p, <<Call("execute", ok, <<job.first_frame - 1, job.last_frame>>)>>)
        /\ Goto(p, "create")
    /\ UNCHANGED <<entries, slate_dir, job, sg_vars, nuke_vars, sequences, sequence,
                   publish_data, version>>

\* VersionData, were the Version given the range that was rendered, slate
\* frame included
VersionData_RenderRange(data) ==
    [project           |-> data.project,
     code              |-> data.code,
     description       |-> data.description,
     sg_colorspace     |-> job.colorspace_odt,
     sg_path_to_movie  |-> job.slate_path,
     sg_path_to_frames |-> job.sequence_path,
     sg_status_list    |-> "rev",
     sg_first_frame    |-> job.first_frame - 1,
     sg_last_frame     |-> job.last_frame,
     sg_uploaded_movie_frame_rate |-> job.fps,
     frame_range       |-> IntToStr(job.first_frame) \o <<"-">> \o IntToStr(job.last_frame),
     sg_movie_has_slate |-> TRUE,
     entity            |-> data.entity,
     sg_task           |-> data.task,
     user              |-> data.created_by,
     published_files   |-> <<[type |-> "PublishedFile", id |-> data.id]>>]

\* the data dict of __upload_to_shotgrid
VersionData(data) ==
    [project           |-> data.project,
     code              |-> data.code,
     description       |-> data.description,
     sg_colorspace     |-> job.colorspace_odt,
     sg_path_to_movie  |-> job.slate_path,
     sg_path_to_frames |-> job.sequence_path,
     sg_status_list    |-> "rev",
     sg_first_frame    |-> job.first_frame,
     sg_last_frame     |-> job.last_frame,
     sg_uploaded_movie_frame_rate |-> job.fps,
     frame_range       |-> IntToStr(job.first_frame) \o <<"-">> \o IntToStr(job.last_frame),
     sg_movie_has_slate |-> TRUE,
     entity            |-> data.entity,
     sg_task           |-> data.task,
     user              |-> data.created_by,
     published_files   |-> <<[type |-> "PublishedFile", id |-> data.id]>>]

\* the id the tracking database gives the next Version
NewVersionId(versions) == Len(versions) + 1

\* CreateVersion, were a Version with the same data looked up and reused
CreateVersion_Reuses(p) ==
    /\ pc[p] = "create"
    /\ \E ok \in BOOLEAN :
        LET id   == NewVersionId(sg_versions)
            same == { i \in 1..Len(sg_versions) :
                        sg_versions[i].data = VersionData(publish_data[p]) }
        IN
        /\ sg_versions' = IF ok /\ same = {}
                          THEN Append(sg_versions,
                                      [id |-> id, by |-> p, data |-> VersionData(publish_data[p])])
                          ELSE sg_versions
        /\ version' = [version EXCEPT ![p] =
               IF ~ok THEN @
               ELSE IF same = {} THEN [type |-> "int", value |-> id]
               ELSE [type |-> "int", value |-> sg_versions[CHOOSE i \in same : TRUE].id]]
        /\ Log(p, <<Call("create", ok, <<>>)>>)
        /\ Goto(p, IF ok THEN "upload" ELSE "failed")
    /\ UNCHANGED <<fs_vars, job, sg_uploads, sg_task_status, nuke_vars, sequences,
                   sequence, publish_data>>

\* version = self.sg.create("Version", data).get("id")
CreateVersion(p) ==
    /\ pc[p] = "create"
    /\ \E ok \in BOOLEAN :
        LET id == NewVersionId(sg_versions) IN
        /\ sg_versions' = IF ok
                          THEN Append(sg_versions,
                                      [id |-> id, by |-> p, data |-> VersionData(publish_data[p])])
                          ELSE sg_versions
        /\ version' = [version EXCEPT ![p] = IF ok THEN [type |-> "int", value |-> id] ELSE @]
        /\ Log(p, <<Call("create", ok, <<>>)>>)
        /\ Goto(p, IF ok THEN "upload" ELSE "failed")
    /\ UNCHANGED <<fs_vars, job, sg_uploads, sg_task_status, nuke_vars, sequences,
                   sequence, publish_data>>

\* UploadMovie, were the Version deleted again when the upload raises
UploadMovie_RollsBack(p) ==
    /\ pc[p] = "upload"
    /\ \E ok \in BOOLEAN :
        LET Mine(v) == v.by # p IN
        /\ sg_uploads' = IF ok THEN sg_uploads \cup {version[p].value} ELSE sg_uploads
        /\ sg_versions' = IF ok THEN sg_versions ELSE SelectSeq(sg_versions, Mine)
        /\ Log(p, <<Call("upload", ok, <<version[p].value>>)>>)
        /\ Goto(p, IF ok THEN "update" ELSE "failed")
    /\ UNCHANGED <<fs_vars, job, sg_task_status, nuke_vars, sequences,
                   sequence, publish_data, version>>

\* UploadMovie, were an upload that raises caught like a render that raises
UploadMovie_Swallows(p) ==
    /\ pc[p] = "upload"
    /\ \E ok \in BOOLEAN :
        /\ sg_uploads' = IF ok THEN sg_uploads \cup {version[p].value} ELSE sg_uploads
        /\ Log(p, <<Call("upload", ok, <<version[p].value>>)>>)
        /\ Goto(p, "update")
    /\ UNCHANGED <<fs_vars, job, sg_versions, sg_task_status, nuke_vars, sequences,
                   sequence, publish_data, version>>

\* self.sg.upload("Version", version, slate_path, "sg_uploaded_movie")
UploadMovie(p) ==
    /\ pc[p] = "upload"
    /\ \E ok \in BOOLEAN :
        /\ sg_uploads' = IF ok THEN sg_uploads \cup {version[p].value} ELSE sg_uploads
        /\ Log(p, <<Call("upload", ok, <<version[p].value>>)>>)
        /\ Goto(p, IF ok THEN "update" ELSE "failed")
    /\ UNCHANGED <<fs_vars, job, sg_versions, sg_task_status, nuke_vars, sequences,
                   sequence, publish_data, version>>

\* UpdateTask, were the status update left out
UpdateTask_Skipped(p) ==
    /\ pc[p] = "update"
    /\ Goto(p, "done")
    /\ UNCHANGED <<fs_vars, job, sg_vars, nuke_vars, calls, sequences,
                   sequence, publish_data, version>>

\* self.sg.update("Task", task_id, {"sg_status_list": "rev"})
UpdateTask(p) ==
    /\ pc[p] = "update"
    /\ \E ok \in BOOLEAN :
        /\ sg_task_status' = IF ok THEN "rev" ELSE sg_task_status
        /\ Log(p, <<Call("update", ok, <<publish_data[p].task.id>>)>>)
        /\ Goto(p, IF ok THEN "done" ELSE "failed")
    /\ UNCHANGED <<fs_vars, job, sg_versions, sg_uploads, nuke_vars, sequences,
                   sequence, publish_data, version>>

Step(p) ==
    \/ Connect(p)
    \/ Validate(p)
    \/ SetupScript(p)
    \/ GetPublishData(p)
    \/ SetupSlate(p)
    \/ SetupWrite(p)
    \/ RenderSlate(p)
    \/ CreateVersion(p)
    \/ UploadMovie(p)
    \/ UpdateTask(p)

Next == \E p \in Procs : Step(p)

Spec == Init /\ [][Next]_vars

\* the runs of the 1001 - 1010 job into a missing slate folder
InitLive ==
    /\ Init
    /\ job.first_frame = 1001
    /\ ~slate_dir

\* every call returns or raises: while some invocation can step, one does
LiveSpec == InitLive /\ [][Next]_vars /\ WF_vars(Next)

\* -------------------------------------------------- the scanner on its own
\* the invocations are about to validate, on every listing within the bound
\* and every request that names a scanned group or none
InitScan ==
    /\ entries \in Listings
    /\ slate_dir = FALSE
    /\ movie = FALSE
    /\ \E name \in TemplatesOf(entries) \cup OtherRequests :
          job = JobOf(1001, 1010, CompletePublish.id, name)
    /\ InitTracking
    /\ InitLocals("validate")

\* one invocation runs the validator
NextScan == Validate(1)

SpecScan == InitScan /\ [][NextScan]_vars

\* ------------------------------------------------ one run, any frame range
\* one invocation on the two-sequence listing, for every requested range
InitSlate ==
    /\ entries = << F(<<"a">>, ".", <<"2">>, <<"e">>),
                    F(<<"b">>, ".", <<"0", "1">>, <<"e">>),
                    F(<<"a">>, ".", <<"1", "0">>, <<"e">>) >>
    /\ slate_dir = FALSE
    /\ movie = FALSE
    /\ \E first_frame \in SlateFrames, last_frame \in SlateFrames :
          job = JobOf(first_frame, last_frame, CompletePublish.id,
                      <<"a", ".", "%", "0", "1", "d", ".", "e">>)
    /\ InitTracking
    /\ InitLocals("connect")

NextSlate == Step(1)

SpecSlate == InitSlate /\ [][NextSlate]_vars

\* ------------------------------------------------------- reading the logs
Terminal == {"done", "failed"}

\* positions in the log of p of the calls of op
CallsOf(p, op) == { i \in 1..Len(calls[p]) : calls[p][i].op = op }

Issued(p, op) == CallsOf(p, op) # {}

Succeeded(p, op) == \E i \in CallsOf(p, op) : calls[p][i].ok

Raised(p, op) == \E i \in CallsOf(p, op) : ~calls[p][i].ok

\* the Version records invocation p created
VersionsBy(p) == { i \in 1..Len(sg_versions) : sg_versions[i].by = p }

\* -------------------------------------------------------------------- C1
\* C1 as stated: in every finished run where the render and the Version
\* create succeeded, sg.update was issued exactly once.
C1_UpdateOnceGivenCreate ==
    \A p \in Procs :
        (pc[p] \in Terminal /\ Succeeded(p, "execute") /\ Succeeded(p, "create"))
            => Cardinality(CallsOf(p, "update")) = 1

\* C1 amended: sg.update is issued at most once per run, only after
\* sg.upload has returned and never before sg.upload or sg.create; it is
\* issued exactly once in every finished run where the render, the create
\* and the upload succeeded.
C1_UpdateOnceAfterUpload ==
    \A p \in Procs :
        /\ Cardinality(CallsOf(p, "update")) <= 1
        /\ \A i \in CallsOf(p, "update") :
              /\ \E j \in CallsOf(p, "upload") : j < i /\ calls[p][j].ok
              /\ \E k \in CallsOf(p, "create") : k < i /\ calls[p][k].ok
              /\ \A j \in CallsOf(p, "upload") \cup CallsOf(p, "create") : j < i
        /\ (pc[p] \in Terminal /\ Succeeded(p, "execute") /\ Succeeded(p, "create")
               /\ Succeeded(p, "upload"))
              => Cardinality(CallsOf(p, "update")) = 1

C1_Witness ==
    \E p \in Procs :
        /\ pc[p] = "done"
        /\ Succeeded(p, "execute")
        /\ Cardinality(CallsOf(p, "update")) = 1

\* -------------------------------------------------------------------- C2
\* C2: a render that raises does not fail the run; the run is in the upload
\* stage right after it and every finished run that executed the render has
\* attempted sg.create, whether the render succeeded or not.
C2_RenderFailureSwallowed ==
    \A p \in Procs :
        /\ (calls[p] # <<>> /\ calls[p][Len(calls[p])].op = "execute") => pc[p] = "create"
        /\ (pc[p] \in Terminal /\ Issued(p, "execute")) =>
              \E i \in CallsOf(p, "create") : \E j \in CallsOf(p, "execute") : j < i

C2_Witness ==
    \E p \in Procs : Raised(p, "execute") /\ Issued(p, "create")

\* -------------------------------------------------------------------- C3
\* no scanned group has the requested basename
NoGroupMatches(p) ==
    \A i \in 1..Len(sequences[p]) :
        FixedFilename(sequences[p][i]) # basename(job.sequence_path)

Scanned(p) == pc[p] \notin {"connect", "validate"}

\* C4 as stated: for every group g the scanner produced, a request whose
\* basename is the basename of g's template path makes the validator return
\* g, template path and frame list unchanged, whatever g's prefix is.
C4_ValidatorReturnsGroup ==
    \A p \in Procs :
        Scanned(p) =>
            \A i \in 1..Len(sequences[p]) :
                basename(sequences[p][i][1]) = basename(job.sequence_path)
                    => /\ pc[p] # "failed"
                       /\ sequence[p] = sequences[p][i]

\* -------------------------------------------------------------------- C5
TrackingOps == {"Shotgun", "find_one", "create", "upload", "update"}

KnownOps == TrackingOps \cup {"root", "Read", "nfaSlate", "Write", "makedirs", "execute"}

\* C5: an upload that raises after the create leaves the run Failed, its
\* Version record in place and no update issued; an update that raises after
\* the upload leaves the run Failed, the Version and its uploaded movie in
\* place and the task status as the other runs left it.  No run deletes:
\* every created Version and every uploaded movie is still there and the
\* logs hold no call but the known ones.
C5_NoRollback ==
    /\ \A p \in Procs :
        /\ Raised(p, "upload") =>
              /\ pc[p] = "failed"
              /\ Cardinality(VersionsBy(p)) = 1
              /\ ~Issued(p, "update")
        /\ Raised(p, "update") =>
              /\ pc[p] = "failed"
              /\ Cardinality(VersionsBy(p)) = 1
              /\ version[p].value \in sg_uploads
        /\ Succeeded(p, "create") <=> VersionsBy(p) # {}
        /\ Succeeded(p, "upload") => version[p].value \in sg_uploads
        /\ \A i \in 1..Len(calls[p]) : calls[p][i].op \in KnownOps
    /\ (sg_task_status = "rev") <=> (\E q \in Procs : Succeeded(q, "update"))

C5_Witness ==
    \E p, q \in Procs :
        /\ Raised(p, "upload") /\ VersionsBy(p) # {}
        /\ Raised(q, "update") /\ sg_task_status = "ip"

\* -------------------------------------------------------------------- C6
\* C6: any two runs of the same job that both reached Done, one after the
\* other or interleaved, have each created one Version record of their own:
\* the two records carry the same data and different ids, and each run
\* uploaded to its own.
C6_TwoRunsTwoVersions ==
    \A p, q \in Procs :
        (p # q /\ pc[p] = "done" /\ pc[q] = "done") =>
            /\ Len(sg_versions) >= 2
            /\ version[p].value # version[q].value
            /\ Cardinality(VersionsBy(p)) = 1
            /\ Cardinality(VersionsBy(q)) = 1
            /\ \A i \in VersionsBy(p), j \in VersionsBy(q) :
                  /\ sg_versions[i].id = version[p].value
                  /\ sg_versions[j].id = version[q].value
                  /\ sg_versions[i].id # sg_versions[j].id
                  /\ sg_versions[i].data = sg_versions[j].data

C6_Witness ==
    \E p, q \in Procs : p # q /\ pc[p] = "done" /\ pc[q] = "done"

\* -------------------------------------------------------------------- C7
\* the requested sequence matched a scanned group in p's validation
Matched(p) == \E i \in 1..Len(sequences[p]) :
                  FixedFilename(sequences[p][i]) = basename(job.sequence_path)

\* the publish record of the job is there with all its fields
PublishComplete ==
    \E r \in PublishedFiles :
        /\ r.id = job.publish_id
        /\ r.project # None /\ r.created_by # None /\ r.task # None
        /\ r.version_number # None

OnceEach(p) ==
    \A op \in {"find_one", "execute", "create", "upload", "update"} :
        Cardinality(CallsOf(p, op)) = 1

\* C7 as stated, the part a finished run decides: with a matching request, a
\* complete publish record and no tracking call that raised, the run is Done
\* and has issued one find_one, execute, create, upload and update.
C7_DoneGivenTracking ==
    \A p \in Procs :
        (/\ pc[p] \in Terminal
         /\ Matched(p)
         /\ PublishComplete
         /\ \A i \in 1..Len(calls[p]) : calls[p][i].op \in TrackingOps => calls[p][i].ok)
            => (pc[p] = "done" /\ OnceEach(p))

\* no call of p raised, save the render, which is caught
NothingRaised(p) ==
    \A i \in 1..Len(calls[p]) : ~calls[p][i].ok => calls[p][i].op = "execute"

C7_Final ==
    \A p \in Procs :
        /\ pc[p] = "done" => OnceEach(p)
        /\ (pc[p] \in Terminal /\ Matched(p) /\ PublishComplete /\ NothingRaised(p))
              => pc[p] = "done"

\* C7 amended: every run ends in Done or Failed; a run that is Done has
\* issued exactly one find_one, execute, create, upload and update; and a
\* run with a matching request and a complete publish record in which no
\* tracking call, no scene construction call and no directory creation
\* raised ends in Done.
C7_TerminatesAndCompletes ==
    /\ <>(\A p \in Procs : pc[p] \in Terminal)
    /\ []C7_Final

C7_Witness ==
    \E p \in Procs : pc[p] = "done" /\ Raised(p, "execute") /\ OnceEach(p)

\* -------------------------------------------------------------- C8, C9
\* entry i of the listing is a file the frame pattern matches
IsFrameFile(es, i) == es[i] \notin SubDirs /\ FRAME_REGEX(es[i]).matched

\* entries i and j belong to one frame sequence
SameSequence(es, i, j) ==
    /\ FRAME_REGEX(es[i]).prefix = FRAME_REGEX(es[j]).prefix
    /\ FRAME_REGEX(es[i]).frame_sep = FRAME_REGEX(es[j]).frame_sep
    /\ FRAME_REGEX(es[i]).extension = FRAME_REGEX(es[j]).extension

\* the listing holds only the files of one sequence, all with w digits
OneSequence(es, w) ==
    /\ es # <<>>
    /\ \A i \in 1..Len(es) :
          /\ IsFrameFile(es, i)
          /\ SameSequence(es, 1, i)
          /\ Len(FRAME_REGEX(es[i]).frame_str) = w

FrameNumbers(tokens) == { StrToNat(tokens[i]) : i \in 1..Len(tokens) }

\* C8: a listing of one sequence whose frame numbers all have w digits, in
\* any order, scans to exactly one group; its frame list holds the frame
\* number of every file once and nothing else; its template path is the
\* prefix, the separator, a %0<w>d placeholder and the extension.
C8_OneSequenceOneGroup ==
    \A p \in Procs : \A w \in 1..9 :
        (Scanned(p) /\ OneSequence(entries, w)) =>
            /\ Len(sequences[p]) = 1
            /\ Len(sequences[p][1][2]) = Len(entries)
            /\ FrameNumbers(sequences[p][1][2])
                  = { StrToNat(FRAME_REGEX(entries[i]).frame_str) : i \in 1..Len(entries) }
            /\ Cardinality(FrameNumbers(sequences[p][1][2])) = Len(entries)
            /\ sequences[p][1][1] =
                  Folder \o <<"/">> \o FRAME_REGEX(entries[1]).prefix
                         \o <<FRAME_REGEX(entries[1]).frame_sep>>
                         \o <<"%", "0", DigitChars[w + 1], "d", ".">>
                         \o FRAME_REGEX(entries[1]).extension

C8_Witness ==
    \E p \in Procs :
        /\ Scanned(p)
        /\ OneSequence(entries, 2)
        /\ Len(entries) = 2

\* the prefixes of the files of the listing
Prefixes(es) == { FRAME_REGEX(es[i]).prefix : i \in 1..Len(es) }

\* the listing holds the files of two sequences with different prefixes
TwoSequences(es) ==
    /\ \A i \in 1..Len(es) : IsFrameFile(es, i)
    /\ Cardinality(Prefixes(es)) = 2
    /\ \A i, j \in 1..Len(es) :
          FRAME_REGEX(es[i]).prefix = FRAME_REGEX(es[j]).prefix => SameSequence(es, i, j)

\* the frame tokens of the files with the prefix, in listing order
RECURSIVE TokensOf(_, _)
TokensOf(es, prefix) ==
    IF es = <<>> THEN <<>>
    ELSE (IF FRAME_REGEX(Head(es)).prefix = prefix
          THEN <<FRAME_REGEX(Head(es)).frame_str>> ELSE <<>>)
         \o TokensOf(Tail(es), prefix)

\* the group's template names the prefix and its separator
TemplateHasPrefix(g, prefix) ==
    /\ Len(basename(g[1])) > Len(prefix)
    /\ SubSeq(basename(g[1]), 1, Len(prefix)) = prefix
    /\ basename(g[1])[Len(prefix) + 1] \in FrameSeps
    /\ basename(g[1])[Len(prefix) + 2] = "%"

\* C9: a listing of two sequences with different prefixes, in any
\* interleaving, scans to exactly two groups, one per prefix, and each
\* group's frame list is the frame tokens of the files with its prefix: every
\* file gives one entry to its own group and none to the other.
C9_TwoSequencesTwoGroups ==
    \A p \in Procs :
        (Scanned(p) /\ TwoSequences(entries)) =>
            /\ Len(sequences[p]) = 2
            /\ \A prefix \in Prefixes(entries) :
                  \E i \in 1..2 :
                      /\ TemplateHasPrefix(sequences[p][i], prefix)
                      /\ sequences[p][i][2] = TokensOf(entries, prefix)
            /\ Len(sequences[p][1][2]) + Len(sequences[p][2][2]) = Len(entries)

C9_Witness ==
    \E p \in Procs :
        /\ Scanned(p)
        /\ TwoSequences(entries)
        /\ Len(entries) = 3
        /\ FRAME_REGEX(entries[1]).prefix = FRAME_REGEX(entries[3]).prefix
        /\ FRAME_REGEX(entries[1]).prefix # FRAME_REGEX(entries[2]).prefix

\* ------------------------------------------------------------------- C10
\* s is how Python prints an int: digits, no leading zero, "-" when negative
IsIntText(s) ==
    LET d == IF s # <<>> /\ s[1] = "-" THEN Tail(s) ELSE s IN
    /\ d # <<>>
    /\ \A i \in 1..Len(d) : IsDigit(d[i])
    /\ Len(d) > 1 => d[1] # "0"
    /\ (s[1] = "-") => d # <<"0">>

IntOfText(s) == IF s[1] = "-" THEN 0 - StrToNat(Tail(s)) ELSE StrToNat(s)

\* label reads "<a> - <b> (<c>)"
LabelReads(label, a, b, c) ==
    \E i, j \in 1..Len(label) :
        /\ i + 4 <= j /\ j + 3 <= Len(label) - 1
        /\ SubSeq(label, i + 1, i + 3) = <<" ", "-", " ">>
        /\ SubSeq(label, j + 1, j + 2) = <<" ", "(">>
        /\ label[Len(label)] = ")"
        /\ IsIntText(SubSeq(label, 1, i))
        /\ IsIntText(SubSeq(label, i + 4, j))
        /\ IsIntText(SubSeq(label, j + 3, Len(label) - 1))
        /\ IntOfText(SubSeq(label, 1, i)) = a
        /\ IntOfText(SubSeq(label, i + 4, j)) = b
        /\ IntOfText(SubSeq(label, j + 3, Len(label) - 1)) = c

\* C10: the frameList knob of the slate reads "<first> - <last> (<d>)" with
\* first and last the frames of the command line and d = last - first, so
\* "1001 - 1010 (9)" for 1001 and 1010, whatever range the scanner found.
C10_FrameListLabel ==
    \A p \in Procs :
        slate[p] # None =>
            /\ LabelReads(slate[p].frameList, job.first_frame, job.last_frame,
                          job.last_frame - job.first_frame)
            /\ (job.first_frame = 1001 /\ job.last_frame = 1010) =>
                  slate[p].frameList = <<"1", "0", "0", "1", " ", "-", " ",
                                         "1", "0", "1", "0", " ", "(", "9", ")">>

C10_Witness ==
    \E p \in Procs :
        /\ slate[p] # None
        /\ job.first_frame = 1001 /\ job.last_frame = 1010
        /\ read[p].first # job.first_frame
        /\ read[p].last # job.last_frame

\* ------------------------------------------------------------------- C11
SetMin(S) == CHOOSE m \in S : \A x \in S : m <= x

SetMax(S) == CHOOSE m \in S : \A x \in S : x <= m

\* C11 as stated: the first and last frame of the Read node are the smallest
\* and the largest frame number of the matched group, its tokens read as
\* integers, also when the tokens differ in digit count.
C11_ReadRangeNumeric ==
    \A p \in Procs :
        read[p] # None =>
            /\ read[p].first = SetMin(FrameNumbers(sequence[p][2]))
            /\ read[p].last = SetMax(FrameNumbers(sequence[p][2]))

\* ------------------------------------------------------------------- C12
\* entry j is the first file of the listing with its prefix and extension
FirstOfGroup(es, j) ==
    /\ IsFrameFile(es, j)
    /\ \A k \in 1..(j - 1) :
          IsFrameFile(es, k) =>
              \/ FRAME_REGEX(es[k]).prefix # FRAME_REGEX(es[j]).prefix
              \/ FRAME_REGEX(es[k]).extension # FRAME_REGEX(es[j]).extension

\* the template path a group has when file m is its first member
TemplateOfFirst(m) ==
    Folder \o <<"/">> \o m.prefix \o <<m.frame_sep>>
           \o <<"%", "0", DigitChars[Len(m.frame_str) + 1], "d", ".">> \o m.extension

\* C12 as stated: every scanned group's template path carries a placeholder
\* as wide as the frame number of the group's own first file, also when the
\* folder holds groups whose first files differ in digit count.
C12_PaddingOfOwnFirstMember ==
    \A p \in Procs :
        Scanned(p) =>
            /\ Len(sequences[p])
                  = Cardinality({ j \in 1..Len(entries) : FirstOfGroup(entries, j) })
            /\ \A j \in 1..Len(entries) :
                  FirstOfGroup(entries, j) =>
                      \E i \in 1..Len(sequences[p]) :
                          sequences[p][i][1] = TemplateOfFirst(FRAME_REGEX(entries[j]))

\* ------------------------------------------------------------------- C13
\* the extension a template path ends in
TemplateExtension(g) == SubSeq(g[1], LastIndexOf(g[1], ".") + 1, Len(g[1]))

\* the files of the listing whose frame tokens are in the frame list of g
Members(es, g) ==
    { j \in 1..Len(es) :
        /\ IsFrameFile(es, j)
        /\ TemplateHasPrefix(g, FRAME_REGEX(es[j]).prefix)
        /\ TemplateExtension(g) = FRAME_REGEX(es[j]).extension }

\* C13 as stated: the files of one scanned group share prefix, separator and
\* extension; files that differ in the separator are in different groups.
C13_GroupSharesSeparator ==
    \A p \in Procs :
        Scanned(p) =>
            \A i \in 1..Len(sequences[p]) :
                \A j, k \in Members(entries, sequences[p][i]) :
                    SameSequence(entries, j, k)

\* ------------------------------------------------------------------- C14
\* C14 as stated: every scanned frame list is non-empty and no two of its
\* entries are the same integer.
C14_FramesUnique ==
    \A p \in Procs :
        Scanned(p) =>
            \A i \in 1..Len(sequences[p]) :
                /\ Len(sequences[p][i][2]) > 0
                /\ Cardinality(FrameNumbers(sequences[p][i][2])) = Len(sequences[p][i][2])

\* ------------------------------------------------------------------- C15
\* the calls of the stages before the render
PreRenderOps == {"Shotgun", "root", "Read", "find_one", "nfaSlate", "Write", "makedirs"}

\* invocation p failed in a stage before the render: the last call it made
\* is one of those stages
FailedBeforeRendering(p) ==
    /\ pc[p] = "failed"
    /\ calls[p] # <<>>
    /\ calls[p][Len(calls[p])].op \in PreRenderOps

\* C15: a run that failed before Rendering (connection, validation, scene
\* configuration, publish lookup, slate construction on a missing or
\* incomplete publish record, output construction) has issued no create,
\* upload or update, has executed no render, has created no Version and has
\* not created the slate folder.
C15_CleanAbortBeforeRender ==
    \A p \in Procs :
        FailedBeforeRendering(p) =>
            /\ \A op \in {"execute", "create", "upload", "update"} : ~Issued(p, op)
            /\ VersionsBy(p) = {}
            /\ version[p] = None
            /\ ~Succeeded(p, "makedirs")
            /\ write[p] # None => Raised(p, "makedirs")

C15_Witness ==
    \E p \in Procs :
        /\ FailedBeforeRendering(p)
        /\ Raised(p, "makedirs")
        /\ ~slate_dir

\* ------------------------------------------------------------------- C16
\* the positions of __init__ in the order it passes them
InitOrder ==
    << "connect", "validate", "setup_script", "get_publish_data", "setup_slate",
       "setup_write", "render_slate", "create", "upload", "update", "done" >>

PositionOf(label) == CHOOSE i \in 1..Len(InitOrder) : InitOrder[i] = label

\* Validating 1, Configuring 2, BuildingSlate 3, BuildingOutput 4,
\* Rendering 5, Uploading 6, Done 7, Failed 8
StageOf(label) ==
    CASE label \in {"connect", "validate"}              -> 1
      [] label \in {"setup_script", "get_publish_data"} -> 2
      [] label = "setup_slate"                          -> 3
      [] label = "setup_write"                          -> 4
      [] label = "render_slate"                         -> 5
      [] label \in {"create", "upload", "update"}       -> 6
      [] label = "done"                                 -> 7
      [] label = "failed"                               -> 8

\* a call that raised is not made again, and only a render that raised is
\* followed by anything
NoRetry(p) ==
    \A i \in 1..Len(calls[p]) :
        ~calls[p][i].ok =>
            /\ \A j \in 1..Len(calls[p]) : j # i => calls[p][j].op # calls[p][i].op
            /\ calls[p][i].op # "execute" => (i = Len(calls[p]) /\ pc[p] = "failed")

\* one step of invocation p: it leaves no terminal state, and goes to Failed
\* or to the next position of __init__, which is in the same stage or in the
\* next one; the log of calls only grows
ForwardStep(p) ==
    /\ pc'[p] # pc[p] =>
        /\ pc[p] \notin Terminal
        /\ \/ pc'[p] = "failed"
           \/ /\ PositionOf(pc'[p]) = PositionOf(pc[p]) + 1
              /\ StageOf(pc'[p]) \in {StageOf(pc[p]), StageOf(pc[p]) + 1}
    /\ Len(calls'[p]) >= Len(calls[p])
    /\ SubSeq(calls'[p], 1, Len(calls[p])) = calls[p]
    /\ pc[p] \in Terminal => calls'[p] = calls[p]

\* C16: within a run the position only moves forward through Validating,
\* Configuring, BuildingSlate, BuildingOutput, Rendering, Uploading and Done,
\* or to Failed: no stage is entered twice or skipped, no call that raised is
\* made again, and nothing leaves Done or Failed.
C16_ForwardOnly ==
    /\ [](\A p \in Procs : NoRetry(p))
    /\ [][\A p \in Procs : ForwardStep(p)]_vars

C16_Witness ==
    \E p \in Procs :
        /\ pc[p] = "done"
        /\ Raised(p, "execute")
        /\ \A op \in KnownOps : Cardinality(CallsOf(p, op)) = 1

\* ------------------------------------------------------------------- C17
\* the range of the matched group, its frame tokens read as integers
ScannedRange(p) ==
    << SetMin(FrameNumbers(sequence[p][2])), SetMax(FrameNumbers(sequence[p][2])) >>

\* C17 as stated: for every job whose requested range differs from the
\* scanned range of the matched group, the Read node's first and last (and
\* origfirst, origlast) are the scanned ones and not the requested ones.
C17_ReadUsesScannedRange ==
    \A p \in Procs :
        (read[p] # None /\ <<job.first_frame, job.last_frame>> # ScannedRange(p)) =>
            /\ <<read[p].first, read[p].last>> = ScannedRange(p)
            /\ <<read[p].origfirst, read[p].origlast>> = ScannedRange(p)
            /\ <<read[p].first, read[p].last>> # <<job.first_frame, job.last_frame>>

\* ------------------------------------------------------------------- C18
\* C18: every Version record created carries the requested first and last
\* frame, status "rev", the slate flag set, the project, entity, task and
\* user of the PublishedFile that the one find_one of its run returned, and
\* one published_files link with that record's id.
C18_VersionRecord ==
    \A i \in 1..Len(sg_versions) :
        LET p == sg_versions[i].by
            d == sg_versions[i].data
            r == find_one(job.publish_id)
        IN
        /\ d.sg_first_frame = job.first_frame
        /\ d.sg_last_frame = job.last_frame
        /\ d.sg_status_list = "rev"
        /\ d.sg_movie_has_slate = TRUE
        /\ Cardinality(CallsOf(p, "find_one")) = 1
        /\ \A k \in CallsOf(p, "find_one") :
               calls[p][k].ok /\ calls[p][k].args = <<job.publish_id>>
        /\ r # None
        /\ publish_data[p] = r
        /\ d.project = r.project
        /\ d.entity = r.entity
        /\ d.sg_task = r.task
        /\ d.user = r.created_by
        /\ d.published_files = <<[type |-> "PublishedFile", id |-> r.id]>>

C18_Witness ==
    \E i \in 1..Len(sg_versions) :
        LET p == sg_versions[i].by IN
        /\ <<read[p].first, read[p].last>> # <<job.first_frame, job.last_frame>>
        /\ ScannedRange(p) # <<job.first_frame, job.last_frame>>
        /\ job.first_frame = 1001

\* ------------------------------------------------------------------- C19
\* C19: every render is executed once, from the requested first frame minus
\* one to the requested last frame: one frame more than the requested range,
\* in front, whatever range the Read node got from the scan.
C19_RenderRange ==
    \A p \in Procs :
        /\ Cardinality(CallsOf(p, "execute")) <= 1
        /\ pc[p] \in {"create", "upload", "update", "done"} => Issued(p, "execute")
        /\ \A i \in CallsOf(p, "execute") :
               /\ Len(calls[p][i].args) = 2
               /\ calls[p][i].args[1] + 1 = job.first_frame
               /\ calls[p][i].args[2] = job.last_frame
               /\ calls[p][i].args[2] - calls[p][i].args[1]
                      = (job.last_frame - job.first_frame) + 1

C19_Witness ==
    \E p \in Procs :
        /\ Issued(p, "execute")
        /\ ScannedRange(p) # <<job.first_frame, job.last_frame>>
        /\ read[p].first # job.first_frame - 1
        /\ read[p].last # job.last_frame

\* ------------------------------------------------------------------- C20
\* C20: whenever a run is about to render or has rendered, the folder of
\* slate_path exists: it was there already (no makedirs call) or the run's
\* makedirs succeeded; a run whose makedirs raised is Failed and never
\* renders.
C20_DirBeforeRender ==
    \A p \in Procs :
        /\ (pc[p] = "render_slate" \/ Issued(p, "execute")) =>
               /\ slate_dir
               /\ Issued(p, "makedirs") => Succeeded(p, "makedirs")
               /\ \A i \in CallsOf(p, "makedirs"), j \in CallsOf(p, "execute") : i < j
        /\ Raised(p, "makedirs") => (pc[p] = "failed" /\ ~Issued(p, "execute"))

C20_Witness ==
    \E p \in Procs :
        /\ Issued(p, "execute")
        /\ Succeeded(p, "makedirs")

====
